---- MODULE Spec2Model ----
(***************************************************************************)
(* Model of poetry_functions.py: the phonetic analysis functions of the    *)
(* poetry form checker.  A Python str is a sequence of one-character       *)
(* strings, a phoneme is such a sequence, a pronunciation is a sequence of *)
(* phonemes, and a pronunciation dictionary is a function whose domain is  *)
(* its set of keys.  Python list indices are kept 0-based in every value   *)
(* the functions return; element i of a Python list is element i + 1 of    *)
(* the sequence that models it.                                            *)
(***************************************************************************)
EXTENDS Integers, Sequences, FiniteSets, TLC

VARIABLES fn, args, result

vars == <<fn, args, result>>

(***************************************************************************)
(* Bounds of the explored inputs.                                          *)
(***************************************************************************)
MaxLines == 2

MaxPhonemes == 4

MaxScheme == 5

(***************************************************************************)
(* Outcomes of a call: a returned value or a raised exception.             *)
(***************************************************************************)
Return(v) == [raised |-> FALSE, value |-> v]

Raise(e) == [raised |-> TRUE, value |-> e]

(***************************************************************************)
(* str.upper, str.strip and str.split as Python computes them.             *)
(***************************************************************************)
lowercase == <<"a", "b", "c", "d", "e", "f", "g", "h", "i", "j", "k", "l", "m", "n", "o", "p", "q", "r", "s", "t", "u", "v", "w", "x", "y", "z">>

uppercase == <<"A", "B", "C", "D", "E", "F", "G", "H", "I", "J", "K", "L", "M", "N", "O", "P", "Q", "R", "S", "T", "U", "V", "W", "X", "Y", "Z">>

upper_char(c) ==
    IF \E k \in 1..Len(lowercase) : lowercase[k] = c
    THEN uppercase[CHOOSE k \in 1..Len(lowercase) : lowercase[k] = c]
    ELSE c

upper(s) == [k \in 1..Len(s) |-> upper_char(s[k])]

strip(s, chars) ==
    LET keep == {k \in 1..Len(s) : s[k] \notin chars}
    IN  IF keep = {} THEN <<>>
        ELSE SubSeq(s, CHOOSE k \in keep : \A m \in keep : k <= m,
                       CHOOSE k \in keep : \A m \in keep : m <= k)

whitespace == {" ", "\t", "\n", "\r", "\f"}

RECURSIVE split_from(_, _, _, _)
split_from(s, k, word, words) ==
    IF k > Len(s)
    THEN IF word = <<>> THEN words ELSE Append(words, word)
    ELSE IF s[k] \in whitespace
         THEN split_from(s, k + 1, <<>>, IF word = <<>> THEN words ELSE Append(words, word))
         ELSE split_from(s, k + 1, Append(word, s[k]), words)

split(s) == split_from(s, 1, <<>>, <<>>)

(***************************************************************************)
(* transform_string: upper-case, then strip the punctuation characters     *)
(* from both ends.  The lexer of TLA+ does not accept a back quote inside  *)
(* a string, so that one character is written U+0060.                      *)
(***************************************************************************)
backquote == "U+0060"

punctuation == {"!", "\"", "'", backquote, "@", "$", "%", "^", "&", "_", "-", "+", "=", "{", "}", "|", "\\", "/", ",", ";", ":", ".", "?", ")", "(", "[", "]", "<", ">", "*", "#", "\n", "\t", "\r"}

transform_string(s) == strip(upper(s), punctuation)

(***************************************************************************)
(* is_vowel_phoneme: the last character is 0, 1 or 2.                      *)
(***************************************************************************)
is_vowel_phoneme(phoneme) == phoneme[Len(phoneme)] \in {"0", "1", "2"}

(***************************************************************************)
(* get_last_syllable: scan from the last index down to 0 and return the    *)
(* slice that starts at the first vowel phoneme met; () when none is met.  *)
(***************************************************************************)
RECURSIVE last_syllable_scan(_, _)
last_syllable_scan(word_phonemes, i) ==
    IF i < 0 THEN <<>>
    ELSE IF is_vowel_phoneme(word_phonemes[i + 1])
         THEN SubSeq(word_phonemes, i + 1, Len(word_phonemes))
         ELSE last_syllable_scan(word_phonemes, i - 1)

RECURSIVE first_vowel_scan(_, _)
first_vowel_scan(word_phonemes, i) ==
    IF i >= Len(word_phonemes) THEN <<>>
    ELSE IF is_vowel_phoneme(word_phonemes[i + 1])
         THEN SubSeq(word_phonemes, i + 1, Len(word_phonemes))
         ELSE first_vowel_scan(word_phonemes, i + 1)

get_last_syllable_from_first_vowel(word_phonemes) == first_vowel_scan(word_phonemes, 0)

get_last_syllable(word_phonemes) ==
    last_syllable_scan(word_phonemes, Len(word_phonemes) - 1)

(***************************************************************************)
(* get_syllable_count: the loop runs over the characters of the            *)
(* transformed line; for each character that is a key of the dictionary,   *)
(* the inner loop runs over the keys of the dictionary and counts those    *)
(* that is_vowel_phoneme accepts.  The count is the number of pairs        *)
(* (i, j) the two loops reach with both tests true.                        *)
(***************************************************************************)
get_syllable_count(poem_line, word_to_phonemes) ==
    LET poem_lines == transform_string(poem_line)
    IN  Cardinality({p \in (1..Len(poem_lines)) \X (DOMAIN word_to_phonemes) :
                        /\ <<poem_lines[p[1]]>> \in DOMAIN word_to_phonemes
                        /\ is_vowel_phoneme(p[2])})

(***************************************************************************)
(* check_syllable_counts: description[0] is description[1] here.           *)
(* syllable_counts[i] raises IndexError when i is past its end.            *)
(***************************************************************************)
RECURSIVE syllable_counts_loop(_, _, _, _, _)
syllable_counts_loop(poem_lines, syllable_counts, word_to_phonemes, i, invalid_lines) ==
    IF i >= Len(poem_lines) THEN Return(invalid_lines)
    ELSE IF i >= Len(syllable_counts) THEN Raise("IndexError")
    ELSE LET line == poem_lines[i + 1]
             req_syllables == syllable_counts[i + 1]
         IN  IF req_syllables # 0 /\ get_syllable_count(line, word_to_phonemes) # req_syllables
             THEN syllable_counts_loop(poem_lines, syllable_counts, word_to_phonemes, i + 1,
                                       Append(invalid_lines, line))
             ELSE syllable_counts_loop(poem_lines, syllable_counts, word_to_phonemes, i + 1,
                                       invalid_lines)

RECURSIVE no_zero_guard_loop(_, _, _, _, _)
no_zero_guard_loop(poem_lines, syllable_counts, word_to_phonemes, i, invalid_lines) ==
    IF i >= Len(poem_lines) THEN Return(invalid_lines)
    ELSE IF i >= Len(syllable_counts) THEN Raise("IndexError")
    ELSE LET line == poem_lines[i + 1]
             req_syllables == syllable_counts[i + 1]
         IN  IF get_syllable_count(line, word_to_phonemes) # req_syllables
             THEN no_zero_guard_loop(poem_lines, syllable_counts, word_to_phonemes, i + 1,
                                     Append(invalid_lines, line))
             ELSE no_zero_guard_loop(poem_lines, syllable_counts, word_to_phonemes, i + 1,
                                     invalid_lines)

check_syllable_counts_no_zero_guard(poem_lines, description, word_to_phonemes) ==
    no_zero_guard_loop(poem_lines, description[1], word_to_phonemes, 0, <<>>)

check_syllable_counts(poem_lines, description, word_to_phonemes) ==
    syllable_counts_loop(poem_lines, description[1], word_to_phonemes, 0, <<>>)

(***************************************************************************)
(* words_rhyme.                                                            *)
(***************************************************************************)
words_rhyme_whole_pronunciation(word1, word2, word_to_phonemes) ==
    LET w1 == transform_string(word1)
        w2 == transform_string(word2)
    IN  IF (w1 \notin DOMAIN word_to_phonemes) \/ (w2 \notin DOMAIN word_to_phonemes)
        THEN FALSE
        ELSE word_to_phonemes[w1] = word_to_phonemes[w2]

words_rhyme(word1, word2, word_to_phonemes) ==
    LET w1 == transform_string(word1)
        w2 == transform_string(word2)
    IN  IF (w1 \notin DOMAIN word_to_phonemes) \/ (w2 \notin DOMAIN word_to_phonemes)
        THEN FALSE
        ELSE get_last_syllable(word_to_phonemes[w1]) = get_last_syllable(word_to_phonemes[w2])

(***************************************************************************)
(* all_lines_rhyme: the first loop collects the last syllable of the last  *)
(* word of each line and returns False at the first word that is no key;   *)
(* poem_lines[i] and split()[-1] raise IndexError when there is no such    *)
(* element.  The second loop compares every collected syllable to last[0]. *)
(***************************************************************************)
RECURSIVE all_lines_rhyme_loop(_, _, _, _, _)
all_lines_rhyme_loop(poem_lines, lines_to_check, word_to_phonemes, k, last) ==
    IF k > Len(lines_to_check)
    THEN Return(~ \E j \in 1..Len(last) : last[j] # last[1])
    ELSE LET i == lines_to_check[k]
         IN  IF i >= Len(poem_lines) THEN Raise("IndexError")
             ELSE LET words == split(poem_lines[i + 1])
                  IN  IF words = <<>> THEN Raise("IndexError")
                      ELSE LET ending_word == transform_string(words[Len(words)])
                           IN  IF ending_word \notin DOMAIN word_to_phonemes
                               THEN Return(FALSE)
                               ELSE all_lines_rhyme_loop(
                                        poem_lines, lines_to_check, word_to_phonemes, k + 1,
                                        Append(last, get_last_syllable(word_to_phonemes[ending_word])))

RECURSIVE skip_unknown_loop(_, _, _, _, _)
skip_unknown_loop(poem_lines, lines_to_check, word_to_phonemes, k, last) ==
    IF k > Len(lines_to_check)
    THEN Return(~ \E j \in 1..Len(last) : last[j] # last[1])
    ELSE LET i == lines_to_check[k]
         IN  IF i >= Len(poem_lines) THEN Raise("IndexError")
             ELSE LET words == split(poem_lines[i + 1])
                  IN  IF words = <<>> THEN Raise("IndexError")
                      ELSE LET ending_word == transform_string(words[Len(words)])
                           IN  IF ending_word \notin DOMAIN word_to_phonemes
                               THEN skip_unknown_loop(poem_lines, lines_to_check,
                                                      word_to_phonemes, k + 1, last)
                               ELSE skip_unknown_loop(
                                        poem_lines, lines_to_check, word_to_phonemes, k + 1,
                                        Append(last, get_last_syllable(word_to_phonemes[ending_word])))

all_lines_rhyme_skip_unknown(poem_lines, lines_to_check, word_to_phonemes) ==
    skip_unknown_loop(poem_lines, lines_to_check, word_to_phonemes, 1, <<>>)

RECURSIVE inverted_test_loop(_, _, _, _, _)
inverted_test_loop(poem_lines, lines_to_check, word_to_phonemes, k, last) ==
    IF k > Len(lines_to_check)
    THEN Return(~ \E j \in 1..Len(last) : last[j] = last[1])
    ELSE LET i == lines_to_check[k]
         IN  IF i >= Len(poem_lines) THEN Raise("IndexError")
             ELSE LET words == split(poem_lines[i + 1])
                  IN  IF words = <<>> THEN Raise("IndexError")
                      ELSE LET ending_word == transform_string(words[Len(words)])
                           IN  IF ending_word \notin DOMAIN word_to_phonemes
                               THEN Return(FALSE)
                               ELSE inverted_test_loop(
                                        poem_lines, lines_to_check, word_to_phonemes, k + 1,
                                        Append(last, get_last_syllable(word_to_phonemes[ending_word])))

all_lines_rhyme_inverted_test(poem_lines, lines_to_check, word_to_phonemes) ==
    inverted_test_loop(poem_lines, lines_to_check, word_to_phonemes, 1, <<>>)

all_lines_rhyme(poem_lines, lines_to_check, word_to_phonemes) ==
    all_lines_rhyme_loop(poem_lines, lines_to_check, word_to_phonemes, 1, <<>>)

(***************************************************************************)
(* get_rhyme_label_to_lines.  The dict it returns keeps its keys in the    *)
(* order of insertion, and check_rhyme_scheme iterates it in that order:   *)
(* it is the sequence of its items, each a label with its list of lines.   *)
(***************************************************************************)
dict_keys(labels) == {labels[k].label : k \in 1..Len(labels)}

RECURSIVE rhyme_label_loop(_, _, _)
rhyme_label_loop(rhyme_scheme, i, labels) ==
    IF i >= Len(rhyme_scheme) THEN labels
    ELSE LET label == rhyme_scheme[i + 1]
             with_key == IF label \notin dict_keys(labels)
                         THEN Append(labels, [label |-> label, lines |-> <<>>])
                         ELSE labels
         IN  rhyme_label_loop(rhyme_scheme, i + 1,
                 [k \in 1..Len(with_key) |->
                     IF with_key[k].label = label
                     THEN [with_key[k] EXCEPT !.lines = Append(@, i)]
                     ELSE with_key[k]])

RECURSIVE overwrite_loop(_, _, _)
overwrite_loop(rhyme_scheme, i, labels) ==
    IF i >= Len(rhyme_scheme) THEN labels
    ELSE LET label == rhyme_scheme[i + 1]
             with_key == IF label \notin dict_keys(labels)
                         THEN Append(labels, [label |-> label, lines |-> <<>>])
                         ELSE labels
         IN  overwrite_loop(rhyme_scheme, i + 1,
                 [k \in 1..Len(with_key) |->
                     IF with_key[k].label = label
                     THEN [with_key[k] EXCEPT !.lines = <<i>>]
                     ELSE with_key[k]])

get_rhyme_label_to_lines_overwrite(rhyme_scheme) == overwrite_loop(rhyme_scheme, 0, <<>>)

get_rhyme_label_to_lines(rhyme_scheme) == rhyme_label_loop(rhyme_scheme, 0, <<>>)

(***************************************************************************)
(* check_rhyme_scheme: description[1] is description[2] here.  For each    *)
(* label but '*', in the order of the dict, the group's lines are appended *)
(* by each of the two "if not all_lines_rhyme" statements.                 *)
(***************************************************************************)
RECURSIVE rhyme_scheme_loop(_, _, _, _, _)
rhyme_scheme_loop(poem_lines, labels, word_to_phonemes, k, bad_lines) ==
    IF k > Len(labels) THEN Return(bad_lines)
    ELSE LET label == labels[k].label
             j == labels[k].lines
         IN  IF label = "*"
             THEN rhyme_scheme_loop(poem_lines, labels, word_to_phonemes, k + 1, bad_lines)
             ELSE IF \E m \in 1..Len(j) : j[m] >= Len(poem_lines) THEN Raise("IndexError")
             ELSE LET line == [m \in 1..Len(j) |-> poem_lines[j[m] + 1]]
                      first == all_lines_rhyme(poem_lines, j, word_to_phonemes)
                      second == all_lines_rhyme(poem_lines, j, word_to_phonemes)
                  IN  IF first.raised THEN first
                      ELSE LET bad_first == IF ~first.value THEN Append(bad_lines, line)
                                            ELSE bad_lines
                           IN  IF second.raised THEN second
                               ELSE rhyme_scheme_loop(
                                        poem_lines, labels, word_to_phonemes, k + 1,
                                        IF ~second.value THEN Append(bad_first, line)
                                        ELSE bad_first)

check_rhyme_scheme(poem_lines, description, word_to_phonemes) ==
    rhyme_scheme_loop(poem_lines, get_rhyme_label_to_lines(description[2]),
                      word_to_phonemes, 1, <<>>)

(***************************************************************************)
(* Inputs: the pronunciations the dictionaries are cut from, which are the *)
(* entries of the doctests and six more.                                   *)
(***************************************************************************)
Pronunciation ==
    <<"N", "E", "X", "T">> :> <<<<"N">>, <<"E", "H", "1">>, <<"K">>, <<"S">>, <<"T">>>> @@
    <<"G", "A", "P">> :> <<<<"G">>, <<"A", "E", "1">>, <<"P">>>> @@
    <<"B", "E", "F", "O", "R", "E">> :> <<<<"B">>, <<"I", "H", "0">>, <<"F">>, <<"A", "O", "1">>, <<"R">>>> @@
    <<"L", "E", "A", "D", "S">> :> <<<<"L">>, <<"I", "Y", "1">>, <<"D">>, <<"Z">>>> @@
    <<"W", "I", "T", "H">> :> <<<<"W">>, <<"I", "H", "1">>, <<"D", "H">>>> @@
    <<"L", "I", "N", "E">> :> <<<<"L">>, <<"A", "Y", "1">>, <<"N">>>> @@
    <<"T", "H", "E", "N">> :> <<<<"D", "H">>, <<"E", "H", "1">>, <<"N">>>> @@
    <<"T", "H", "E">> :> <<<<"D", "H">>, <<"A", "H", "0">>>> @@
    <<"A">> :> <<<<"A", "H", "0">>>> @@
    <<"F", "I", "R", "S", "T">> :> <<<<"F">>, <<"E", "R", "1">>, <<"S">>, <<"T">>>> @@
    <<"E", "N", "D", "S">> :> <<<<"E", "H", "1">>, <<"N">>, <<"D">>, <<"Z">>>> @@
    <<"P", "O", "E", "M">> :> <<<<"P">>, <<"O", "W", "1">>, <<"A", "H", "0">>, <<"M">>>> @@
    <<"O", "F", "F">> :> <<<<"A", "O", "1">>, <<"F">>>> @@
    <<"U", "2">> :> <<<<"Y">>, <<"U", "W", "1">>, <<"T">>, <<"U", "W", "1">>>> @@
    <<"C", "A", "T">> :> <<<<"K">>, <<"A", "E", "1">>, <<"T">>>> @@
    <<"H", "A", "T">> :> <<<<"H", "H">>, <<"A", "E", "1">>, <<"T">>>> @@
    <<"C", "A", "T", "S">> :> <<<<"K">>, <<"A", "E", "1">>, <<"T">>, <<"S">>>> @@
    <<"H", "M">> :> <<<<"H", "H">>, <<"M">>>> @@
    <<"S", "H">> :> <<<<"S", "H">>>>

Dict(keys) == [w \in keys |-> Pronunciation[w]]

(***************************************************************************)
(* Inputs: phonemes and phoneme sequences.                                 *)
(***************************************************************************)
Phonemes == {<<"A", "E", "1">>, <<"I", "H", "0">>, <<"U", "W", "2">>, <<"N">>, <<"T", "H">>}

SeqsUpTo(S, n) == UNION {[1..m -> S] : m \in 0..n}

PhonemeSeqs == SeqsUpTo(Phonemes, MaxPhonemes)

(***************************************************************************)
(* Inputs: lines, poems, descriptions and dictionaries.  The three lines   *)
(* of ExamplePoem and ExampleDict are those of the doctests of             *)
(* check_syllable_counts and check_rhyme_scheme, ThenLine and ThenDict     *)
(* those of the doctest of get_syllable_count.                             *)
(***************************************************************************)
FirstLine == <<"T", "h", "e", " ", "f", "i", "r", "s", "t", " ", "l", "i", "n", "e", " ", "l", "e", "a", "d", "s", " ", "o", "f", "f", ",">>

GapLine == <<"W", "i", "t", "h", " ", "a", " ", "g", "a", "p", " ", "b", "e", "f", "o", "r", "e", " ", "t", "h", "e", " ", "n", "e", "x", "t", ".">>

EndsLine == <<"T", "h", "e", "n", " ", "t", "h", "e", " ", "p", "o", "e", "m", " ", "e", "n", "d", "s", ".">>

ThenLine == <<"T", "h", "e", "n", "!", " ", "t", "h", "e", " ", "#", "p", "o", "e", "m", " ", "e", "n", "d", "s", ".">>

ExamplePoem == <<FirstLine, GapLine, EndsLine>>

ExampleDict ==
    Dict({<<"N", "E", "X", "T">>, <<"G", "A", "P">>, <<"B", "E", "F", "O", "R", "E">>, <<"L", "E", "A", "D", "S">>, <<"W", "I", "T", "H">>, <<"L", "I", "N", "E">>, <<"T", "H", "E", "N">>,
          <<"T", "H", "E">>, <<"A">>, <<"F", "I", "R", "S", "T">>, <<"E", "N", "D", "S">>, <<"P", "O", "E", "M">>, <<"O", "F", "F">>})

ThenDict == Dict({<<"T", "H", "E", "N">>, <<"E", "N", "D", "S">>, <<"T", "H", "E">>, <<"P", "O", "E", "M">>})

CatLine == <<"a", " ", "c", "a", "t">>

HatLine == <<"T", "h", "e", " ", "h", "a", "t", ".">>

BandLine == <<"U", "2", " ", "a">>

BlankLine == <<" ">>

Lines == {CatLine, HatLine, BandLine, BlankLine}

Poems == SeqsUpTo(Lines, MaxLines)

PoemDicts == {Dict(keys) : keys \in SUBSET {<<"A">>, <<"U", "2">>, <<"C", "A", "T">>, <<"H", "A", "T">>}}

Counts == {0, 1, 2}

Labels == {"A", "B", "*"}

Unconstrained(n) == [k \in 1..n |-> "*"]

Zeros(n) == [k \in 1..n |-> 0]

SyllableInputs ==
    {<<poem_lines, <<syllable_counts, Unconstrained(Len(syllable_counts))>>, word_to_phonemes>> :
        poem_lines \in Poems, syllable_counts \in SeqsUpTo(Counts, MaxLines),
        word_to_phonemes \in PoemDicts}
    \cup {<<ExamplePoem, <<<<5, 5, 4>>, <<"*", "*", "*">>>>, ExampleDict>>,
          <<<<FirstLine>>, <<<<0>>, <<"*">>>>, ExampleDict>>}

RhymeInputs ==
    {<<poem_lines, <<Zeros(Len(rhyme_scheme)), rhyme_scheme>>, word_to_phonemes>> :
        poem_lines \in Poems, rhyme_scheme \in SeqsUpTo(Labels, MaxLines),
        word_to_phonemes \in PoemDicts}
    \cup {<<ExamplePoem, <<<<5, 7, 5>>, <<"A", "B", "A">>>>, ExampleDict>>}

IndexLists(n) == SeqsUpTo(0..(n - 1), MaxLines) \ {<<>>}

Words == {<<"c", "a", "t">>, <<"H", "a", "t", ".">>, <<"c", "a", "t", "s", "!">>, <<"h", "m">>, <<"#", "s", "h">>, <<"a">>, <<"U", "2">>, <<"t", "h", "e">>}

WordDicts == {Dict(keys) : keys \in SUBSET {<<"A">>, <<"U", "2">>, <<"C", "A", "T">>, <<"H", "A", "T">>, <<"C", "A", "T", "S">>, <<"H", "M">>, <<"S", "H">>}}

Schemes == SeqsUpTo(Labels, MaxScheme)

(***************************************************************************)
(* The calls: each draws its arguments, and result is what the function    *)
(* returns or raises.                                                      *)
(***************************************************************************)
Init ==
    /\ fn = "none"
    /\ args = <<>>
    /\ result = Return(<<>>)

CallTransformString ==
    /\ fn = "none"
    /\ \E s \in Lines \cup Words \cup {ThenLine, <<"!", "?">>, <<>>} :
        /\ fn' = "transform_string"
        /\ args' = [s |-> s]
        /\ result' = Return(transform_string(s))

CallGetSyllableCount ==
    /\ fn = "none"
    /\ \E poem_line \in Lines \cup {FirstLine, GapLine, EndsLine, ThenLine},
          word_to_phonemes \in PoemDicts \cup {ExampleDict, ThenDict} :
        /\ fn' = "get_syllable_count"
        /\ args' = [poem_line |-> poem_line, word_to_phonemes |-> word_to_phonemes]
        /\ result' = Return(get_syllable_count(poem_line, word_to_phonemes))

CallCheckSyllableCounts ==
    /\ fn = "none"
    /\ \E inp \in SyllableInputs :
        /\ fn' = "check_syllable_counts"
        /\ args' = [poem_lines |-> inp[1], description |-> inp[2], word_to_phonemes |-> inp[3]]
        /\ result' = check_syllable_counts(inp[1], inp[2], inp[3])

CallGetLastSyllable ==
    /\ fn = "none"
    /\ \E word_phonemes \in PhonemeSeqs :
        /\ fn' = "get_last_syllable"
        /\ args' = [word_phonemes |-> word_phonemes]
        /\ result' = Return(get_last_syllable(word_phonemes))

CallWordsRhyme ==
    /\ fn = "none"
    /\ \E word1 \in Words, word2 \in Words, word_to_phonemes \in WordDicts :
        /\ fn' = "words_rhyme"
        /\ args' = [word1 |-> word1, word2 |-> word2, word_to_phonemes |-> word_to_phonemes]
        /\ result' = Return(words_rhyme(word1, word2, word_to_phonemes))

CallAllLinesRhyme ==
    /\ fn = "none"
    /\ \E poem_lines \in Poems, word_to_phonemes \in PoemDicts :
        \E lines_to_check \in IndexLists(Len(poem_lines)) :
            /\ fn' = "all_lines_rhyme"
            /\ args' = [poem_lines |-> poem_lines, lines_to_check |-> lines_to_check,
                        word_to_phonemes |-> word_to_phonemes]
            /\ result' = all_lines_rhyme(poem_lines, lines_to_check, word_to_phonemes)

CallGetRhymeLabelToLines ==
    /\ fn = "none"
    /\ \E rhyme_scheme \in Schemes :
        /\ fn' = "get_rhyme_label_to_lines"
        /\ args' = [rhyme_scheme |-> rhyme_scheme]
        /\ result' = Return(get_rhyme_label_to_lines(rhyme_scheme))

CallCheckRhymeScheme ==
    /\ fn = "none"
    /\ \E inp \in RhymeInputs :
        /\ fn' = "check_rhyme_scheme"
        /\ args' = [poem_lines |-> inp[1], description |-> inp[2], word_to_phonemes |-> inp[3]]
        /\ result' = check_rhyme_scheme(inp[1], inp[2], inp[3])

Next ==
    \/ CallTransformString
    \/ CallGetSyllableCount
    \/ CallCheckSyllableCounts
    \/ CallGetLastSyllable
    \/ CallWordsRhyme
    \/ CallAllLinesRhyme
    \/ CallGetRhymeLabelToLines
    \/ CallCheckRhymeScheme

Spec == Init /\ [][Next]_vars

(***************************************************************************)
(* What the claims speak of.                                               *)
(***************************************************************************)
PoemArg == args.poem_lines

DictArg == args.word_to_phonemes

Returned == ~result.raised

HasWord(line) == split(line) # <<>>

LastWord(line) == transform_string(split(line)[Len(split(line))])

LastWordKnown(line, d) == HasWord(line) /\ LastWord(line) \in DOMAIN d

Kernel(line, d) == get_last_syllable(d[LastWord(line)])

SameSequence(a, b) == Len(a) = Len(b) /\ \A k \in 1..Len(a) : a[k] = b[k]

VowelCount(phonemes) == Cardinality({k \in 1..Len(phonemes) : is_vowel_phoneme(phonemes[k])})

RECURSIVE SumOverWords(_, _, _)
SumOverWords(words, d, k) ==
    IF k > Len(words) THEN 0
    ELSE (IF transform_string(words[k]) \in DOMAIN d
          THEN VowelCount(d[transform_string(words[k])]) ELSE 0)
         + SumOverWords(words, d, k + 1)

SyllablesOfWords(line, d) == SumOverWords(split(line), d, 1)

Occurrences(seq, x) == Cardinality({k \in 1..Len(seq) : seq[k] = x})

LinesAt(poem, indices) == [m \in 1..Len(indices) |-> poem[indices[m] + 1]]

IsVowelToken(phoneme) ==
    phoneme[Len(phoneme)] = "0" \/ phoneme[Len(phoneme)] = "1" \/ phoneme[Len(phoneme)] = "2"

(***************************************************************************)
(* C1: with len(poem) = len(rhyme scheme), the list check_rhyme_scheme     *)
(* returns holds exactly one entry for each label other than '*' whose     *)
(* group fails all_lines_rhyme, that entry being the group's lines in      *)
(* ascending index order, and nothing else.                                *)
(***************************************************************************)
FailingGroups(poem, scheme, d) ==
    LET groups == get_rhyme_label_to_lines(scheme)
    IN  {k \in 1..Len(groups) :
            /\ groups[k].label # "*"
            /\ ~all_lines_rhyme(poem, groups[k].lines, d).value}

C1_EachFailingGroupOnce ==
    (fn = "check_rhyme_scheme" /\ Returned /\ Len(PoemArg) = Len(args.description[2])) =>
        LET groups == get_rhyme_label_to_lines(args.description[2])
            failing == FailingGroups(PoemArg, args.description[2], DictArg)
        IN  /\ Len(result.value) = Cardinality(failing)
            /\ \A k \in failing :
                  Occurrences(result.value, LinesAt(PoemArg, groups[k].lines))
                  = Cardinality({m \in failing : LinesAt(PoemArg, groups[m].lines)
                                                 = LinesAt(PoemArg, groups[k].lines)})

(***************************************************************************)
(* C2: get_syllable_count returns the sum, over the whitespace-delimited   *)
(* words of the line, of the vowel phonemes of each word's pronunciation,  *)
(* a word that is no key counting zero; the doctest's line yields 5.       *)
(***************************************************************************)
C2_CountIsSumOfVowelPhonemes ==
    fn = "get_syllable_count" =>
        /\ result.value = SyllablesOfWords(args.poem_line, DictArg)
        /\ (args.poem_line = ThenLine /\ DictArg = ThenDict) => result.value = 5

(***************************************************************************)
(* C3: with len(poem) = len(syllable counts), check_syllable_counts        *)
(* returns, in poem order, exactly the lines whose required count is not   *)
(* zero and differs from the vowel phonemes of the line's words; for the   *)
(* doctest's poem and (5, 5, 4), the second and third lines.               *)
(***************************************************************************)
RECURSIVE MiscountedFrom(_, _, _, _)
MiscountedFrom(poem, counts, d, k) ==
    IF k > Len(poem) THEN <<>>
    ELSE (IF counts[k] # 0 /\ SyllablesOfWords(poem[k], d) # counts[k]
          THEN <<poem[k]>> ELSE <<>>)
         \o MiscountedFrom(poem, counts, d, k + 1)

C3_ReportsMiscountedLines ==
    (fn = "check_syllable_counts" /\ Len(PoemArg) = Len(args.description[1])) =>
        /\ Returned
        /\ result.value = MiscountedFrom(PoemArg, args.description[1], DictArg, 1)
        /\ (PoemArg = ExamplePoem /\ args.description[1] = <<5, 5, 4>> /\ DictArg = ExampleDict)
              => result.value = <<GapLine, EndsLine>>

C5_LengthMismatchIsAnError ==
    /\ (fn = "check_syllable_counts" /\ Len(PoemArg) # Len(args.description[1])) => result.raised
    /\ (fn = "check_rhyme_scheme" /\ Len(PoemArg) # Len(args.description[2])) => result.raised

(***************************************************************************)
(* C6: words_rhyme returns true if and only if both transformed words are  *)
(* keys of the dictionary and the last syllables of their pronunciations   *)
(* are the same sequence (two empty ones are the same); it never raises.   *)
(***************************************************************************)
C6_WordsRhymeIffSameKernel ==
    fn = "words_rhyme" =>
        LET w1 == transform_string(args.word1)
            w2 == transform_string(args.word2)
        IN  /\ Returned
            /\ result.value \in BOOLEAN
            /\ result.value <=>
                  /\ w1 \in DOMAIN DictArg
                  /\ w2 \in DOMAIN DictArg
                  /\ SameSequence(get_last_syllable(DictArg[w1]), get_last_syllable(DictArg[w2]))

C6_Witness ==
    /\ fn = "words_rhyme"
    /\ transform_string(args.word1) # transform_string(args.word2)
    /\ transform_string(args.word1) \in DOMAIN DictArg
    /\ transform_string(args.word2) \in DOMAIN DictArg
    /\ get_last_syllable(DictArg[transform_string(args.word1)]) = <<>>
    /\ get_last_syllable(DictArg[transform_string(args.word2)]) = <<>>
    /\ result.value

(***************************************************************************)
(* C7: for a non-empty list of valid indices, all_lines_rhyme returns true *)
(* if and only if the transformed last word of every indexed line is a key *)
(* of the dictionary and every such word's last syllable equals that of    *)
(* the first indexed line; it returns false at the first last word that is *)
(* no key.                                                                 *)
(***************************************************************************)
C7_AllLinesRhymeIffKnownAndEqual ==
    fn = "all_lines_rhyme" =>
        LET line(k) == PoemArg[args.lines_to_check[k] + 1]
            n == Len(args.lines_to_check)
        IN  /\ (Returned /\ result.value) <=>
                  /\ \A k \in 1..n : LastWordKnown(line(k), DictArg)
                  /\ \A k \in 1..n : Kernel(line(k), DictArg) = Kernel(line(1), DictArg)
            /\ \A k \in 1..n :
                  ( /\ \A m \in 1..(k - 1) : LastWordKnown(line(m), DictArg)
                    /\ HasWord(line(k))
                    /\ ~LastWordKnown(line(k), DictArg) )
                  => (Returned /\ ~result.value)

C7_Witness ==
    /\ fn = "all_lines_rhyme"
    /\ Len(args.lines_to_check) >= 2
    /\ PoemArg[args.lines_to_check[1] + 1] # PoemArg[args.lines_to_check[2] + 1]
    /\ Returned
    /\ result.value

(***************************************************************************)
(* C8: get_last_syllable returns the suffix that starts at the highest     *)
(* index holding a vowel phoneme, and the empty sequence when there is no  *)
(* vowel phoneme; the result is empty, or a vowel followed by consonants.  *)
(***************************************************************************)
C8_LastSyllableIsSuffixFromLastVowel ==
    fn = "get_last_syllable" =>
        LET p == args.word_phonemes
            r == result.value
            vowels == {k \in 1..Len(p) : IsVowelToken(p[k])}
        IN  /\ Returned
            /\ vowels = {} => r = <<>>
            /\ vowels # {} =>
                  \E k \in vowels :
                      /\ \A m \in vowels : m <= k
                      /\ Len(r) = Len(p) - k + 1
                      /\ \A m \in 1..Len(r) : r[m] = p[k + m - 1]
            /\ r # <<>> => (IsVowelToken(r[1]) /\ \A m \in 2..Len(r) : ~IsVowelToken(r[m]))

C8_Witness ==
    /\ fn = "get_last_syllable"
    /\ Cardinality({k \in 1..Len(args.word_phonemes) : IsVowelToken(args.word_phonemes[k])}) >= 2
    /\ Len(result.value) >= 2
    /\ Len(result.value) < Len(args.word_phonemes)

(***************************************************************************)
(* C9: what check_syllable_counts returns is made of lines at positions    *)
(* whose required count is not zero, in poem order; with every required    *)
(* count zero it is the empty list.                                        *)
(***************************************************************************)
RECURSIVE LinesAtPositions(_, _, _)
LinesAtPositions(poem, positions, k) ==
    IF k > Len(poem) THEN <<>>
    ELSE (IF k \in positions THEN <<poem[k]>> ELSE <<>>) \o LinesAtPositions(poem, positions, k + 1)

C9_ZeroCountNeverFlagged ==
    (fn = "check_syllable_counts" /\ Returned) =>
        LET counts == args.description[1]
            constrained == {k \in 1..Len(PoemArg) : counts[k] # 0}
        IN  /\ \E positions \in SUBSET constrained :
                  result.value = LinesAtPositions(PoemArg, positions, 1)
            /\ constrained = {} => result.value = <<>>

C9_Witness ==
    /\ fn = "check_syllable_counts"
    /\ Returned
    /\ result.value # <<>>
    /\ \E k \in 1..Len(PoemArg) :
          /\ args.description[1][k] = 0
          /\ get_syllable_count(PoemArg[k], DictArg) # 0
          /\ Occurrences(result.value, PoemArg[k]) = 0

(***************************************************************************)
(* C10: the keys of what get_rhyme_label_to_lines returns are exactly the  *)
(* labels of the scheme, '*' among them, each once; the value of a label   *)
(* is the strictly ascending list of exactly the indices that carry it, so *)
(* every index is in exactly one group; ('A','A','B','B','A') gives        *)
(* {'A': [0, 1, 4], 'B': [2, 3]}.                                          *)
(***************************************************************************)
C10_GroupsPartitionTheIndices ==
    fn = "get_rhyme_label_to_lines" =>
        LET scheme == args.rhyme_scheme
            items == result.value
        IN  /\ {items[k].label : k \in 1..Len(items)} = {scheme[i] : i \in 1..Len(scheme)}
            /\ \A k, m \in 1..Len(items) : items[k].label = items[m].label => k = m
            /\ \A k \in 1..Len(items) :
                  /\ \A m \in 1..(Len(items[k].lines) - 1) :
                        items[k].lines[m] < items[k].lines[m + 1]
                  /\ {items[k].lines[m] : m \in 1..Len(items[k].lines)}
                     = {i \in 0..(Len(scheme) - 1) : scheme[i + 1] = items[k].label}
            /\ \A i \in 0..(Len(scheme) - 1) :
                  Cardinality({k \in 1..Len(items) : Occurrences(items[k].lines, i) = 1}) = 1
            /\ scheme = <<"A", "A", "B", "B", "A">> =>
                  {<<items[k].label, items[k].lines>> : k \in 1..Len(items)}
                  = {<<"A", <<0, 1, 4>>>>, <<"B", <<2, 3>>>>}

C10_Witness ==
    /\ fn = "get_rhyme_label_to_lines"
    /\ args.rhyme_scheme = <<"A", "A", "B", "B", "A">>
    /\ Len(result.value) = 2

====
